---- MODULE Spec2Model ----
(***************************************************************************)
(* ZENITH-ULTRA: the App component's state (src/unnamed/part_000, App.tsx  *)
(* part), its handlers, the step callbacks they schedule with setTimeout,  *)
(* and the three services of services/geminiService (callGemini and its    *)
(* callers).  Time is counted in units of TimeUnit milliseconds; a pending *)
(* timer carries the time that remains until it is due.                    *)
(***************************************************************************)
EXTENDS Integers, Sequences, FiniteSets, TLC

VARIABLES
  importedGamePath,   \* useState(localStorage.getItem(...)); <<>> is null
  gameName,           \* useState('')
  tips,               \* useState([]): the value handed to setTips
  isOptimizing,       \* useState(false)
  isLowEndMode,       \* useState(true)
  analyzedProcesses,  \* useState([])
  isRestoring,        \* useState(false)
  boostLog,           \* useState([]): newest line first
  systemHealth,       \* 'STABLE' | 'MODIFIED' | 'OPTIMIZING'
  isOnline,           \* useState(navigator.onLine)
  navOnLine,          \* navigator.onLine
  perfProfile,        \* {targetFps, hexMovementBoost, boostEngine}
  isOfficialBoosting, \* useState(false)
  isOverlayActive,    \* useState(false)
  isGameRunning,      \* useState(false)
  timers,             \* pending setTimeout callbacks, in insertion order
  calls,              \* service requests in flight (awaited promises)
  uncaught,           \* sites of errors no handler caught
  seqs,               \* history: one record per sequence started
  used,               \* history: how many operations of each kind ran
  ev,                 \* history: the step that led to this state
  track,              \* whether this run records the log (it is written, never read)
  stats,              \* the telemetry figures, in units of 1/Grain
  chartData           \* the rolling buffer of the chart

progVars == <<importedGamePath, gameName, tips, isOptimizing, isLowEndMode, analyzedProcesses,
              isRestoring, boostLog, systemHealth, isOnline, navOnLine,
              perfProfile, isOfficialBoosting, isOverlayActive, isGameRunning,
              timers, calls, uncaught, stats, chartData>>
vars == <<importedGamePath, gameName, tips, isOptimizing, isLowEndMode, analyzedProcesses,
          isRestoring, boostLog, systemHealth, isOnline, navOnLine,
          perfProfile, isOfficialBoosting, isOverlayActive, isGameRunning,
          timers, calls, uncaught, seqs, used, ev, track, stats, chartData>>

----------------------------------------------------------------------------
(* Bounds of the model: how many operations of each kind a run may hold.   *)
MaxSeq == 2
MaxFps == 1
MaxOpt == 1
MaxImport == 1

----------------------------------------------------------------------------
(* Program constants.                                                      *)
HxdStepMs == 350
SmartStepMs == 400
RestoreStepMs == 450
RetryDelayMs == 1000
DefaultRetries == 2
DefaultFps == 60
FPS_TARGETS == {24, 30, 45, 60, 120, 144}

RECURSIVE GCD(_, _)
GCD(a, b) == IF b = 0 THEN a ELSE GCD(b, a % b)
TimeUnit == GCD(GCD(HxdStepMs, SmartStepMs), GCD(RestoreStepMs, RetryDelayMs))

NoPath == <<>>
NoEngine == "null"

----------------------------------------------------------------------------
(* Strings the code inspects are sequences of one-character strings.       *)
Uppers == <<"A","B","C","D","E","F","G","H","I","J","K","L","M",
            "N","O","P","Q","R","S","T","U","V","W","X","Y","Z">>
Lowers == <<"a","b","c","d","e","f","g","h","i","j","k","l","m",
            "n","o","p","q","r","s","t","u","v","w","x","y","z">>

\* String.prototype.toLowerCase, one character
LowerChar(c) ==
  IF \E i \in 1..Len(Uppers) : Uppers[i] = c
  THEN Lowers[CHOOSE i \in 1..Len(Uppers) : Uppers[i] = c]
  ELSE c

\* String.prototype.toLowerCase
ToLower(s) == [i \in 1..Len(s) |-> LowerChar(s[i])]

\* String.prototype.includes
Includes(s, sub) ==
  \E i \in 0..(Len(s) - Len(sub)) : SubSeq(s, i + 1, i + Len(sub)) = sub

\* file.name.replace(/\.[^/.]+$/, ""): a final ".ext" with no "/" or "." in ext
StripExt(name) ==
  LET dots == {i \in 1..Len(name) : name[i] = "."}
  IN IF dots = {} THEN name
     ELSE LET d == CHOOSE i \in dots : \A j \in dots : j <= i
          IN IF d < Len(name) /\ \A j \in (d + 1)..Len(name) : name[j] # "/"
             THEN SubSeq(name, 1, d - 1)
             ELSE name

----------------------------------------------------------------------------
(* JSON values, as far as the code looks into them: a value has a type and, *)
(* when it is an array, items; an item has a type and up to three string   *)
(* fields and a name.                                                      *)
Item(t, a, b, c, name) == [t |-> t, a |-> a, b |-> b, c |-> c, name |-> name]
StrItem(a, name) == Item("str", a, "", "", name)
NullItem == Item("null", "", "", "", <<>>)
Val(t, items) == [t |-> t, items |-> items]
Arr(items) == Val("arr", items)
IsArray(v) == v.t = "arr"

\* the response texts the endpoint is let to answer with
TxtEmpty == ""
TxtGarbage == "<html>502</html>"
TxtNull == "null"
TxtObject == "{}"
TxtNumber == "7"
TxtSteps == "[\"ISOLATING THREAD 4\"]"
TxtNullItem == "[null]"
TxtTips == "[{\"category\":\"OS\",\"title\":\"T\",\"description\":\"D\",\"impact\":\"High\"}]"
TxtProcs == "[{\"name\":\"Chrome.exe\",\"status\":\"safe\",\"recommendation\":\"R\"}]"
AllTexts == {TxtEmpty, TxtGarbage, TxtNull, TxtObject, TxtNumber, TxtSteps,
             TxtNullItem, TxtTips, TxtProcs}

ChromeExe == <<"C","h","r","o","m","e",".","e","x","e">>

\* JSON.parse on those texts: ok = FALSE is a SyntaxError
ParseJSON(text) ==
  CASE text = TxtNull -> [ok |-> TRUE, val |-> Val("null", <<>>)]
    [] text = TxtObject -> [ok |-> TRUE, val |-> Val("obj", <<>>)]
    [] text = TxtNumber -> [ok |-> TRUE, val |-> Val("num", <<>>)]
    [] text = TxtSteps ->
         [ok |-> TRUE, val |-> Arr(<<StrItem("ISOLATING THREAD 4", <<>>)>>)]
    [] text = TxtNullItem -> [ok |-> TRUE, val |-> Arr(<<NullItem>>)]
    [] text = TxtTips ->
         [ok |-> TRUE, val |-> Arr(<<Item("obj", "OS", "T", "High", <<>>)>>)]
    [] text = TxtProcs ->
         [ok |-> TRUE, val |-> Arr(<<Item("obj", "safe", "R", "", ChromeExe)>>)]
    [] OTHER -> [ok |-> FALSE, val |-> Val("undefined", <<>>)]

\* what callGemini resolves to: null, or the response text
NullResult == [null |-> TRUE, text |-> ""]
TextResult(text) == [null |-> FALSE, text |-> text]
\* "if (result)": null and "" are falsy
Truthy(result) == ~result.null /\ result.text # ""

----------------------------------------------------------------------------
(* services/geminiService: what each service returns, given what callGemini *)
(* resolved to.                                                            *)

\* the "offline fallback steps" of generateExecutionPlan
PlanFallback(name) ==
  Arr(<<StrItem("LOCAL: Locking CPU Affinity for core 0-3", <<>>),
        StrItem("LOCAL: Flushing standby memory lists for", name),
        StrItem("LOCAL: Suspending non-critical I/O handles", <<>>),
        StrItem("LOCAL: Reallocating virtual memory pool to high-speed cache", <<>>),
        StrItem("LOCAL: Optimizing kernel interrupt request (IRQ) pacing", <<>>)>>)

generateExecutionPlan(result, name) ==
  IF Truthy(result) /\ ParseJSON(result.text).ok
  THEN ParseJSON(result.text).val
  ELSE PlanFallback(name)

\* the "offline fallback tips" of getOptimizationAdvice
AdviceFallback(name, isLowEnd) ==
  Arr(<<Item("obj", "OS", "Ultimate Performance Mode", "High", <<>>),
        Item("obj", "Process", "Realtime Priority Bridge", "Extreme", name),
        Item("obj", "Hardware", "Page File Expansion", "High", <<>>),
        Item("obj", "OS", "Disable Superfetch", "Medium", <<>>),
        Item("obj", "Compatibility", "Legacy Instruction Emulation", "Medium", <<>>)>>)

getOptimizationAdvice(result, name, isLowEnd) ==
  IF Truthy(result) /\ ParseJSON(result.text).ok
  THEN ParseJSON(result.text).val
  ELSE AdviceFallback(name, isLowEnd)

W_discord == <<"d","i","s","c","o","r","d">>
W_chrome == <<"c","h","r","o","m","e">>
W_steam == <<"s","t","e","a","m">>
W_search == <<"s","e","a","r","c","h">>
W_indexer == <<"i","n","d","e","x","e","r">>
W_telemetry == <<"t","e","l","e","m","e","t","r","y">>

\* a heuristic that matches the names as written, without toLowerCase
ClassifyCaseSensitive(name) ==
  IF Includes(name, W_discord) \/ Includes(name, W_chrome) \/ Includes(name, W_steam)
  THEN Item("obj", "safe", "Safe to terminate. These consume significant RAM/CPU.", "", name)
  ELSE IF Includes(name, W_search) \/ Includes(name, W_indexer)
            \/ Includes(name, W_telemetry)
  THEN Item("obj", "safe", "Recommended to disable during gameplay to reduce disk I/O.", "", name)
  ELSE Item("obj", "caution", "Manual identification required. Likely a system or driver handle.", "", name)

\* the heuristic of analyzeProcesses, one process name
Classify(name) ==
  LET lowerName == ToLower(name)
  IN IF Includes(lowerName, W_discord) \/ Includes(lowerName, W_chrome)
          \/ Includes(lowerName, W_steam)
     THEN Item("obj", "safe", "Safe to terminate. These consume significant RAM/CPU.", "", name)
     ELSE IF Includes(lowerName, W_search) \/ Includes(lowerName, W_indexer)
               \/ Includes(lowerName, W_telemetry)
     THEN Item("obj", "safe", "Recommended to disable during gameplay to reduce disk I/O.", "", name)
     ELSE Item("obj", "caution", "Manual identification required. Likely a system or driver handle.", "", name)

AnalyzeFallback(processNames) ==
  Arr([i \in 1..Len(processNames) |-> Classify(processNames[i])])

analyzeProcesses(result, processNames) ==
  IF Truthy(result) /\ ParseJSON(result.text).ok
  THEN ParseJSON(result.text).val
  ELSE AnalyzeFallback(processNames)

\* the list fetchProcesses asks about
ScanList ==
  << <<"D","i","s","c","o","r","d",".","e","x","e">>,
     ChromeExe,
     <<"S","e","a","r","c","h","I","n","d","e","x","e","r",".","e","x","e">>,
     <<"S","t","e","a","m",".","e","x","e">>,
     <<"s","v","c","h","o","s","t",".","e","x","e">> >>

W_500 == <<"5","0","0">>
W_xhr == <<"x","h","r"," ","e","r","r","o","r">>
\* the failure messages the endpoint is let to fail with (<<>>: no message)
Msg500 == <<"g","o","t"," ","5","0","0">>
MsgXhr == <<"x","h","r"," ","e","r","r","o","r",":"," ","0">>
Msg403 == <<"4","0","3">>
MsgNone == <<>>
\* error.message?.includes("500") || error.message?.includes("xhr error")
Transient(msg) == Includes(msg, W_500) \/ Includes(msg, W_xhr)

----------------------------------------------------------------------------
(* Log lines and the three scripts.                                        *)
Line(tag, txt, name, num) ==
  [tag |-> tag, txt |-> txt, name |-> name, num |-> num, sid |-> 0, k |-> 0, n |-> 0]

\* addLog as [...prev, line]
AddLogAtEnd(prev, line) == prev \o <<line>>

\* addLog: setBoostLog(prev => [line, ...prev])
AddLog(prev, line) == <<line>> \o prev

\* the line as it is logged: n is its arrival number (the timestamp's order)
Stamped(line, n) == [line EXCEPT !.n = n]

\* perfProfile.targetFps || 60
FpsOrDefault(fps) == IF fps = 0 THEN DefaultFps ELSE fps

\* the steps of handleHxDBoost
HxdSteps(name, fps) ==
  << Line("HX", "Locating instruction pointer offset", <<>>, 0),
     Line("PATCH", "Identifying velocity vectors", <<>>, 0),
     Line("INJECTION", "Applying 0x90 (NOP) sequence", <<>>, 0),
     Line("SYNC", "Synchronizing HPET", <<>>, 0),
     Line("THREAD", "Setting REALTIME I/O priority", <<>>, 0),
     Line("LINK", "Direct memory bridge active", <<>>, 0),
     Line("CORE", "Target execution locked at", <<>>, FpsOrDefault(fps)) >>

\* `${s}` of one item of customSteps
Stringify(item) == IF item.t = "str" THEN item.a ELSE item.t

\* the baseSteps of startBoostingSequence
SmartSteps(engine, name, customSteps) ==
  << Line("SIGNAL", engine, name, 0),
     Line("MEM", "Mapping process virtual memory pages", <<>>, 0),
     Line("CPU", "Identifying thread topology", <<>>, 0) >>
  \o [i \in 1..Len(customSteps) |->
        Line("NEURAL", Stringify(customSteps[i]), customSteps[i].name, 0)]
  \o << Line("IRQ", "Elevating kernel interrupt request priority", <<>>, 0),
        Line("CACHE", "Flushing instruction cache", name, 0),
        Line("AFFINITY", "Locking process to core cluster 0-3", <<>>, 0),
        Line("ZENITH", "ENGINE IS ACTIVE", <<>>, 0),
        Line("HUD", "Performance OSD attached", <<>>, 0) >>

\* a restore script of five lines
RestoreStepsShort ==
  << Line("RESTORE", "Decoupling process hooks", <<>>, 0),
     Line("RESTORE", "Normalizing CPU affinity masks", <<>>, 0),
     Line("RESTORE", "Resetting I/O priority levels", <<>>, 0),
     Line("RESTORE", "Flushing memory patches", <<>>, 0),
     Line("RESTORE", "System clock re-synchronized", <<>>, 0) >>

\* the steps of handleRestoreSystem
RestoreSteps ==
  << Line("RESTORE", "Decoupling process hooks", <<>>, 0),
     Line("RESTORE", "Normalizing CPU affinity masks", <<>>, 0),
     Line("RESTORE", "Resetting I/O priority levels", <<>>, 0),
     Line("RESTORE", "Flushing memory patches", <<>>, 0),
     Line("RESTORE", "Re-enabling OS telemetry", <<>>, 0),
     Line("RESTORE", "System clock re-synchronized", <<>>, 0) >>

\* delays of i * ms, the index taken as it comes
ScheduleFromZero(steps, ms, kind, sid, fps) ==
  [i \in 1..Len(steps) |->
     [rem |-> ((i - 1) * ms) \div TimeUnit, kind |-> kind, sid |-> sid, k |-> i,
      last |-> (i = Len(steps)),
      line |-> [steps[i] EXCEPT !.sid = sid, !.k = i],
      fps |-> fps, call |-> 0]]

\* steps.forEach((step, i) => setTimeout(..., (i + 1) * ms)): the timers of one
\* sequence; fps is the perfProfile.targetFps the callbacks closed over
Schedule(steps, ms, kind, sid, fps) ==
  [i \in 1..Len(steps) |->
     [rem |-> (i * ms) \div TimeUnit, kind |-> kind, sid |-> sid, k |-> i,
      last |-> (i = Len(steps)),
      line |-> [steps[i] EXCEPT !.sid = sid, !.k = i],
      fps |-> fps, call |-> 0]]

\* a scheduler that clears what is pending when a new script is set
ResetTimeouts(pending, new) == new

\* setTimeout adds callbacks to those pending; it cancels none
SetTimeouts(pending, new) == pending \o new

\* a last step that reads the profile of the moment (a functional update)
HxdFinalFresh(fps) ==
  [targetFps |-> FpsOrDefault(perfProfile.targetFps), hexMovementBoost |-> TRUE,
   boostEngine |-> "hxd"]

\* setPerfProfile of the last step of handleHxDBoost
HxdFinalProfile(fps) ==
  [targetFps |-> FpsOrDefault(fps), hexMovementBoost |-> TRUE, boostEngine |-> "hxd"]

\* a reset that forgets the engine tag
ResetKeepsEngine == [targetFps |-> 0, hexMovementBoost |-> FALSE, boostEngine |-> "hxd"]

\* setPerfProfile of the last step of handleRestoreSystem
ResetProfile == [targetFps |-> 0, hexMovementBoost |-> FALSE, boostEngine |-> NoEngine]

\* setPerfProfile(prev => ...) of selectBoostEngineAndStart
EngineProfile(prev, engine) ==
  [prev EXCEPT !.boostEngine = engine, !.hexMovementBoost = FALSE]

\* setPerfProfile(prev => ({...prev, targetFps: fps}))
FpsProfile(prev, fps) == [prev EXCEPT !.targetFps = fps]

----------------------------------------------------------------------------
(* The state after construction.                                           *)
\* the telemetry figures are kept in units of 1/Grain, and Math.random()
\* yields r / Grain for an r in 0..Grain-1
Grain == 4
ChartWindow == 15

\* stats with the four figures that change; activeProcesses never does
Figures(cpu, ram, temp, ping) ==
  [cpuUsage |-> cpu * Grain, ramUsage |-> ram * Grain, temp |-> temp * Grain,
   ping |-> ping * Grain, activeProcesses |-> 110]

FileGX == <<"g",".","x">>
Files == {FileGX}
Aliases == {<<"z">>}

\* alert: "" when the step raised no alert
Event(op, sid, k, last, alert) ==
  [op |-> op, sid |-> sid, k |-> k, last |-> last, alert |-> alert,
   why |-> "", text |-> "", name |-> <<>>]

Constructed ==
  /\ importedGamePath \in {NoPath, FileGX}
  /\ gameName = <<>>
  /\ tips = Arr(<<>>)
  /\ isOptimizing = FALSE
  /\ isLowEndMode = TRUE
  /\ analyzedProcesses = <<>>
  /\ isRestoring = FALSE
  /\ boostLog = <<>>
  /\ systemHealth = "STABLE"
  /\ navOnLine \in BOOLEAN
  /\ isOnline = navOnLine
  /\ perfProfile = ResetProfile
  /\ isOfficialBoosting = FALSE
  /\ isOverlayActive = FALSE
  /\ isGameRunning = FALSE
  /\ timers = <<>>
  /\ calls = {}
  /\ uncaught = {}
  /\ seqs = <<>>
  /\ used = [seq |-> 0, fps |-> 0, opt |-> 0, scan |-> 0, imp |-> 0,
             alias |-> 0, net |-> 0, low |-> 0, lines |-> 0, calls |-> 0,
             tele |-> 0]
  /\ stats = Figures(12, 35, 45, 15)
  /\ chartData = <<>>
  /\ ev = Event("init", 0, 0, FALSE, "")

Init == Constructed /\ track = TRUE
\* runs that follow the flags and the timers only
InitFlags == Constructed /\ track = FALSE

----------------------------------------------------------------------------
(* History of the sequences: kind, the health it started from, whether no  *)
(* other sequence started since (solo), whether nothing else ran since     *)
(* (quiet), the log at its start, and where it is.                         *)
Live(q) == q.st \in {"await", "run"}

NewSeq(kind) ==
  [kind |-> kind, from |-> systemHealth, solo |-> TRUE, quiet |-> TRUE,
   log0 |-> boostLog, st |-> "run", age |-> 0]

\* another operation ran: no live sequence but `me` is quiet any more (in a
\* run that records the log), and none is solo if the operation started a
\* sequence
Touch(S, me, starts) ==
  [i \in DOMAIN S |->
     IF i = me \/ ~Live(S[i]) THEN S[i]
     ELSE [S[i] EXCEPT !.quiet = IF track THEN FALSE ELSE @,
                       !.solo = IF starts THEN FALSE ELSE @]]

\* a promise continuation is queued: it runs before any other task
NoReady == \A c \in calls : c.phase # "ready"

\* callGemini up to its first await: null at once when offline; tries counts
\* the calls of ai.models.generateContent made for the request
Call(cid, svc, retries, name, sid) ==
  [cid |-> cid, svc |-> svc, retries |-> retries,
   tries |-> IF navOnLine THEN 1 ELSE 0,
   phase |-> IF navOnLine THEN "net" ELSE "ready",
   why |-> IF navOnLine THEN "" ELSE "offline",
   result |-> NullResult, name |-> name, sid |-> sid, onl |-> isOnline,
   low |-> isLowEndMode]

\* tips.length > 0: the panel with the FPS targets and the engines
PanelShown == IsArray(tips) /\ Len(tips.items) > 0

UiVars == <<track, stats, chartData, importedGamePath, gameName, tips, isOptimizing, isLowEndMode,
            analyzedProcesses, isOnline, navOnLine>>
FlagVars == <<isRestoring, systemHealth, perfProfile, isOfficialBoosting,
              isOverlayActive, isGameRunning>>

----------------------------------------------------------------------------
(* The handlers of App.                                                     *)

\* addLog(msg) on the log of this state; a run that does not record the log
\* keeps it empty
Logged(line) ==
  IF track THEN AddLog(boostLog, Stamped(line, used.lines + 1)) ELSE boostLog
\* a start of the orchestrated steps that leaves the log as it is
ClearedKept == boostLog

\* setBoostLog([])
Cleared == <<>>
LineCount == IF track THEN 1 ELSE 0

\* alert(...); return
Alert(op, what) ==
  /\ ev' = Event(op, 0, 0, FALSE, what)
  /\ UNCHANGED <<progVars, seqs, used, track>>

\* the part of handleHxDBoost after its check
HxdStart ==
  LET sid == Len(seqs) + 1
      init == [Line("HxD-INIT", "Accessing memory region", gameName, 0)
                 EXCEPT !.sid = sid]
  IN /\ isOfficialBoosting' = TRUE
     /\ systemHealth' = "OPTIMIZING"
     /\ boostLog' = Logged(init)
     /\ timers' = SetTimeouts(timers, Schedule(HxdSteps(gameName, perfProfile.targetFps),
                                             HxdStepMs, "hxd", sid, perfProfile.targetFps))
     /\ seqs' = Append(Touch(seqs, 0, TRUE), NewSeq("hxd"))
     /\ used' = [used EXCEPT !.seq = @ + 1, !.lines = @ + LineCount]
     /\ ev' = Event("handleHxDBoost", sid, 0, FALSE, "")
     /\ UNCHANGED <<UiVars, isRestoring, perfProfile, isOverlayActive,
                    isGameRunning, calls, uncaught>>

\* handleHxDBoost without its check of the linked target
handleHxDBoostUnchecked == HxdStart

handleHxDBoost ==
  IF importedGamePath = NoPath
  THEN Alert("handleHxDBoost", "path")
  ELSE HxdStart

\* the part of selectBoostEngineAndStart before its await
SmartStart(engine) ==
  LET sid == Len(seqs) + 1
      cid == used.calls + 1
      line == [Line("AI_CORE", IF isOnline THEN "Requesting Neural Strategy from Cloud"
                               ELSE "Generating Local Optimization Plan", <<>>, 0)
                 EXCEPT !.sid = sid]
  IN /\ perfProfile' = EngineProfile(perfProfile, engine)
     /\ systemHealth' = "OPTIMIZING"
     /\ boostLog' = Logged(line)
     /\ calls' = calls \cup {Call(cid, "plan", DefaultRetries, gameName, sid)}
     /\ seqs' = Append(Touch(seqs, 0, TRUE), [NewSeq(engine) EXCEPT !.st = "await"])
     /\ used' = [used EXCEPT !.seq = @ + 1, !.lines = @ + LineCount, !.calls = @ + 1]
     /\ ev' = Event("selectBoostEngineAndStart", sid, 0, FALSE, "")
     /\ UNCHANGED <<UiVars, isRestoring, isOfficialBoosting, isOverlayActive,
                    isGameRunning, timers, uncaught>>

\* selectBoostEngineAndStart without its check of the target FPS
selectBoostUncheckedFps(engine) ==
  IF importedGamePath = NoPath
  THEN Alert("selectBoostEngineAndStart", "path")
  ELSE IF engine = "hxd"
  THEN handleHxDBoost
  ELSE SmartStart(engine)

selectBoostEngineAndStart(engine) ==
  IF perfProfile.targetFps = 0
  THEN Alert("selectBoostEngineAndStart", "fps")
  ELSE IF importedGamePath = NoPath
  THEN Alert("selectBoostEngineAndStart", "path")
  ELSE IF engine = "hxd"
  THEN handleHxDBoost
  ELSE SmartStart(engine)

\* the step that resumes the caller of call c: why callGemini resolved as it
\* did ("offline", "failed", "text"), the text it resolved to and the game
\* name the request was made with
Resumed(op, c) ==
  [Event(op, c.sid, 0, FALSE, "") EXCEPT !.why = c.why, !.text = c.result.text,
                                         !.name = c.name]

\* customSteps.map throws unless customSteps is an array
MapThrows(v) == ~IsArray(v)

\* startBoostingSequence(engine, customSteps), run when the plan of call c is in
startBoostingSequence(c, engine, customSteps) ==
  /\ isOfficialBoosting' = TRUE
  /\ boostLog' = Cleared
  /\ IF MapThrows(customSteps)
     THEN /\ uncaught' = uncaught \cup {"startBoostingSequence"}
          /\ seqs' = [Touch(seqs, c.sid, FALSE) EXCEPT ![c.sid].st = "threw"]
          /\ UNCHANGED timers
     ELSE /\ timers' = SetTimeouts(timers, Schedule(SmartSteps(engine, c.name, customSteps.items),
                                                  SmartStepMs, "smart", c.sid, 0))
          /\ seqs' = [Touch(seqs, c.sid, FALSE) EXCEPT ![c.sid].st = "run"]
          /\ UNCHANGED uncaught
  /\ calls' = calls \ {c}
  /\ ev' = Resumed("startBoostingSequence", c)
  /\ UNCHANGED <<UiVars, isRestoring, systemHealth, perfProfile, isOverlayActive,
                 isGameRunning, used>>

handleRestoreSystem ==
  LET sid == Len(seqs) + 1
      init == [Line("RESTORE", "Initializing system normalization sequence", <<>>, 0)
                 EXCEPT !.sid = sid]
  IN /\ isRestoring' = TRUE
     /\ boostLog' = Logged(init)
     /\ timers' = SetTimeouts(timers, Schedule(RestoreSteps, RestoreStepMs, "restore", sid, 0))
     /\ seqs' = Append(Touch(seqs, 0, TRUE), NewSeq("restore"))
     /\ used' = [used EXCEPT !.seq = @ + 1, !.lines = @ + LineCount]
     /\ ev' = Event("handleRestoreSystem", sid, 0, FALSE, "")
     /\ UNCHANGED <<UiVars, systemHealth, perfProfile, isOfficialBoosting,
                    isOverlayActive, isGameRunning, calls, uncaught>>

selectFpsTarget(fps) ==
  /\ perfProfile' = FpsProfile(perfProfile, fps)
  /\ boostLog' = Logged(Line("TUNER", "Frame-pacing target", <<>>, fps))
  /\ seqs' = Touch(seqs, 0, FALSE)
  /\ used' = [used EXCEPT !.fps = @ + 1, !.lines = @ + LineCount]
  /\ ev' = Event("selectFpsTarget", 0, 0, FALSE, "")
  /\ UNCHANGED <<UiVars, isRestoring, systemHealth, isOfficialBoosting,
                 isOverlayActive, isGameRunning, timers, calls, uncaught>>

handleImportGame(file) ==
  /\ importedGamePath' = file
  /\ gameName' = StripExt(file)
  /\ boostLog' = Logged(Line("FILESYSTEM", "Target Linked", file, 0))
  /\ seqs' = Touch(seqs, 0, FALSE)
  /\ used' = [used EXCEPT !.imp = @ + 1, !.lines = @ + LineCount]
  /\ ev' = Event("handleImportGame", 0, 0, FALSE, "")
  /\ UNCHANGED <<track, stats, chartData, tips, isOptimizing, isLowEndMode, analyzedProcesses, isOnline,
                 navOnLine, FlagVars, timers, calls, uncaught>>

\* the "Entry Alias" input: setGameName(e.target.value)
setGameName(name) ==
  /\ gameName' = name
  /\ used' = [used EXCEPT !.alias = @ + 1]
  /\ ev' = Event("setGameName", 0, 0, FALSE, "")
  /\ UNCHANGED <<track, stats, chartData, importedGamePath, tips, isOptimizing, isLowEndMode,
                 analyzedProcesses, isOnline, navOnLine, FlagVars, boostLog,
                 timers, calls, uncaught, seqs>>

\* setIsLowEndMode(!isLowEndMode)
setIsLowEndMode ==
  /\ isLowEndMode' = ~isLowEndMode
  /\ used' = [used EXCEPT !.low = @ + 1]
  /\ ev' = Event("setIsLowEndMode", 0, 0, FALSE, "")
  /\ UNCHANGED <<track, stats, chartData, importedGamePath, gameName, tips, isOptimizing,
                 analyzedProcesses, isOnline, navOnLine, FlagVars, boostLog,
                 timers, calls, uncaught, seqs>>

\* handleOptimization up to its await
handleOptimization ==
  IF gameName = <<>>
  THEN /\ ev' = Event("handleOptimization", 0, 0, FALSE, "")
       /\ UNCHANGED <<progVars, seqs, used, track>>
  ELSE LET cid == used.calls + 1
           line == Line("CORE", IF isOnline THEN "Initiating Neural analysis"
                                ELSE "Initiating Local Heuristic analysis", gameName, 0)
       IN /\ isOptimizing' = TRUE
          /\ boostLog' = Logged(line)
          /\ calls' = calls \cup {Call(cid, "advice", DefaultRetries, gameName, 0)}
          /\ seqs' = Touch(seqs, 0, FALSE)
          /\ used' = [used EXCEPT !.opt = @ + 1, !.lines = @ + LineCount, !.calls = @ + 1]
          /\ ev' = Event("handleOptimization", 0, 0, FALSE, "")
          /\ UNCHANGED <<track, stats, chartData, importedGamePath, gameName, tips, isLowEndMode,
                         analyzedProcesses, isOnline, navOnLine, FlagVars, timers,
                         uncaught>>

\* fetchProcesses up to its await
fetchProcesses ==
  LET cid == used.calls + 1
  IN /\ boostLog' = Logged(Line("SCAN", "Analyzing background process tree", <<>>, 0))
     /\ calls' = calls \cup {Call(cid, "procs", DefaultRetries, <<>>, 0)}
     /\ seqs' = Touch(seqs, 0, FALSE)
     /\ used' = [used EXCEPT !.scan = @ + 1, !.lines = @ + LineCount, !.calls = @ + 1]
     /\ ev' = Event("fetchProcesses", 0, 0, FALSE, "")
     /\ UNCHANGED <<UiVars, FlagVars, timers, uncaught>>

----------------------------------------------------------------------------
(* The continuations after an await, the external endpoint, the timers.    *)

\* results.map((r, i) => ({ id, name: r.name, status: r.status, ... }));
\* the random cpu and memory figures are left out
FormatProcesses(results) ==
  [i \in 1..Len(results.items) |->
     [id |-> i - 1, name |-> results.items[i].name, status |-> results.items[i].a,
      recommendation |-> results.items[i].b]]

\* results.map throws unless results is an array; r.name throws on a null item
FormatThrows(results) ==
  \/ ~IsArray(results)
  \/ \E i \in 1..Len(results.items) : results.items[i].t = "null"

\* handleOptimization after its await
AdviceDone(c) ==
  LET line == Line("KERNEL", IF c.onl THEN "Analysis complete (Cloud mode)"
                             ELSE "Analysis complete (Offline mode)", <<>>, 0)
  IN /\ tips' = getOptimizationAdvice(c.result, c.name, c.low)
     /\ isOptimizing' = FALSE
     /\ boostLog' = Logged(line)
     /\ calls' = calls \ {c}
     /\ seqs' = Touch(seqs, 0, FALSE)
     /\ used' = [used EXCEPT !.lines = @ + LineCount]
     /\ ev' = Resumed("handleOptimization.then", c)
     /\ UNCHANGED <<track, stats, chartData, importedGamePath, gameName, isLowEndMode, analyzedProcesses,
                    isOnline, navOnLine, FlagVars, timers, uncaught>>

\* fetchProcesses after its await
ProcsDone(c) ==
  LET results == analyzeProcesses(c.result, ScanList)
  IN /\ IF FormatThrows(results)
        THEN /\ uncaught' = uncaught \cup {"fetchProcesses"}
             /\ UNCHANGED analyzedProcesses
        ELSE /\ analyzedProcesses' = FormatProcesses(results)
             /\ UNCHANGED uncaught
     /\ calls' = calls \ {c}
     /\ ev' = Resumed("fetchProcesses.then", c)
     /\ UNCHANGED <<track, stats, chartData, importedGamePath, gameName, tips, isOptimizing, isLowEndMode,
                    isOnline, navOnLine, FlagVars, boostLog, timers, seqs, used>>

\* the caller of a service resumes with what callGemini resolved to
Resume ==
  \E c \in calls :
    /\ c.phase = "ready"
    /\ IF c.svc = "plan"
       THEN startBoostingSequence(c, "smart", generateExecutionPlan(c.result, c.name))
       ELSE IF c.svc = "advice" THEN AdviceDone(c) ELSE ProcsDone(c)

EnvFrame == <<track, stats, chartData, importedGamePath, gameName, tips, isOptimizing, isLowEndMode,
              analyzedProcesses, isOnline, navOnLine, FlagVars, boostLog,
              uncaught, seqs, used>>

\* ai.models.generateContent resolves: return response.text || ""
ApiRespond(T) ==
  \E c \in calls : \E text \in T[c.svc] :
    /\ NoReady
    /\ c.phase = "net"
    /\ calls' = (calls \ {c}) \cup {[c EXCEPT !.phase = "ready", !.result = TextResult(text),
                                                !.why = "text"]}
    /\ ev' = Event("respond", c.sid, 0, FALSE, "")
    /\ UNCHANGED <<EnvFrame, timers>>

\* the timer of "await new Promise(resolve => setTimeout(resolve, 1000))"
RetryTimer(c) ==
  [rem |-> RetryDelayMs \div TimeUnit, kind |-> "retry", sid |-> c.sid, k |-> 0,
   last |-> FALSE, line |-> Line("", "", <<>>, 0), fps |-> 0, call |-> c.cid]

\* retries > 0 && transient: wait and call again; otherwise return null
ShouldRetry(retries, msg) == retries > 0 /\ Transient(msg)

\* ai.models.generateContent rejects: the catch of callGemini
ApiFail(msgs) ==
  \E c \in calls, msg \in msgs :
    /\ NoReady
    /\ c.phase = "net"
    /\ IF ShouldRetry(c.retries, msg)
       THEN /\ calls' = (calls \ {c}) \cup {[c EXCEPT !.phase = "delay"]}
            /\ timers' = SetTimeouts(timers, <<RetryTimer(c)>>)
       ELSE /\ calls' = (calls \ {c}) \cup {[c EXCEPT !.phase = "ready", !.result = NullResult,
                                                        !.why = "failed"]}
            /\ UNCHANGED timers
    /\ ev' = Event("fail", c.sid, 0, FALSE, "")
    /\ UNCHANGED EnvFrame

\* the online and offline events: handleStatusChange
NetChange ==
  /\ NoReady
  /\ navOnLine' = ~navOnLine
  /\ isOnline' = navOnLine'
  /\ used' = [used EXCEPT !.net = @ + 1]
  /\ ev' = Event("handleStatusChange", 0, 0, FALSE, "")
  /\ UNCHANGED <<track, stats, chartData, importedGamePath, gameName, tips, isOptimizing, isLowEndMode,
                 analyzedProcesses, FlagVars, boostLog, timers, calls, uncaught, seqs>>

Due == {i \in 1..Len(timers) : timers[i].rem = 0}
Remove(q, i) == SubSeq(q, 1, i - 1) \o SubSeq(q, i + 1, Len(q))

\* history: the time since the steps of a sequence were scheduled, in units,
\* counted until its last step has run
Aged(S) ==
  [i \in DOMAIN S |-> IF S[i].st = "run" THEN [S[i] EXCEPT !.age = @ + 1] ELSE S[i]]

\* time passes by one unit; a due callback runs before more time passes
Tick ==
  /\ NoReady
  /\ timers # <<>>
  /\ Due = {}
  /\ timers' = [i \in 1..Len(timers) |-> [timers[i] EXCEPT !.rem = @ - 1]]
  /\ seqs' = Aged(seqs)
  /\ ev' = Event("tick", 0, 0, FALSE, "")
  /\ UNCHANGED <<UiVars, FlagVars, boostLog, uncaught, used, calls>>

\* a retry that does not look at navigator.onLine
RecallUnchecked(c) == [c EXCEPT !.phase = "net", !.retries = @ - 1, !.tries = @ + 1]

\* callGemini(params, retries - 1) after the delay: null at once when offline
Recall(c) ==
  IF navOnLine THEN [c EXCEPT !.phase = "net", !.retries = @ - 1, !.tries = @ + 1]
  ELSE [c EXCEPT !.phase = "ready", !.result = NullResult, !.retries = @ - 1,
                 !.why = "offline"]

\* a last callback that leaves the overlay as it is when a restore ends
OverlayKept(kind) == TRUE

\* the value the last callback of a sequence passes to setIsOverlayActive
OverlayAfter(kind) == kind # "restore"

\* the value the last callback of a sequence passes to setIsGameRunning
GameRunningAfter(kind) == kind # "restore"

\* the callback of the timer t of a step sequence
StepCallback(t) ==
  /\ boostLog' = Logged(t.line)
  /\ used' = [used EXCEPT !.lines = @ + LineCount]
  /\ seqs' = IF t.last THEN [Touch(seqs, t.sid, FALSE) EXCEPT ![t.sid].st = "done"]
             ELSE Touch(seqs, t.sid, FALSE)
  /\ IF ~t.last
     THEN UNCHANGED FlagVars
     ELSE IF t.kind = "hxd"
     THEN /\ perfProfile' = HxdFinalProfile(t.fps)
          /\ isGameRunning' = GameRunningAfter(t.kind)
          /\ isOverlayActive' = OverlayAfter(t.kind)
          /\ systemHealth' = "MODIFIED"
          /\ isOfficialBoosting' = FALSE
          /\ UNCHANGED isRestoring
     ELSE IF t.kind = "smart"
     THEN /\ isOfficialBoosting' = FALSE
          /\ isGameRunning' = GameRunningAfter(t.kind)
          /\ isOverlayActive' = OverlayAfter(t.kind)
          /\ systemHealth' = "MODIFIED"
          /\ UNCHANGED <<isRestoring, perfProfile>>
     ELSE /\ isRestoring' = FALSE
          /\ isGameRunning' = GameRunningAfter(t.kind)
          /\ isOverlayActive' = OverlayAfter(t.kind)
          /\ systemHealth' = "STABLE"
          /\ perfProfile' = ResetProfile
          /\ UNCHANGED isOfficialBoosting
  /\ UNCHANGED <<UiVars, calls, uncaught>>

\* the due timer that was set first fires
FireTimer ==
  /\ NoReady
  /\ Due # {}
  /\ LET i == CHOOSE j \in Due : \A m \in Due : j <= m
         t == timers[i]
     IN /\ timers' = Remove(timers, i)
        /\ ev' = Event(t.kind, t.sid, t.k, t.last, "")
        /\ IF t.kind = "retry"
           THEN /\ calls' = {IF c.cid = t.call THEN Recall(c) ELSE c : c \in calls}
                /\ UNCHANGED EnvFrame
           ELSE StepCallback(t)

----------------------------------------------------------------------------
(* The controls of the page: a handler runs when its control is clicked,   *)
(* and a control can be clicked when it is rendered and not disabled.      *)
FpsChoices == {30, 60}

\* "Direct HxD Launch" of the dashboard
DashHxdEnabled == ~isOfficialBoosting /\ ~isGameRunning /\ importedGamePath # NoPath
\* "4. Execute Profile": the two engine buttons of the optimizer panel
ExecuteShown == PanelShown /\ perfProfile.targetFps > 0 /\ systemHealth = "STABLE"
\* a RESTORE STABILITY button that does not look at isRestoring
DashRestoreUnguarded == systemHealth # "STABLE"

\* "RESTORE STABILITY" of the dashboard
DashRestoreEnabled == systemHealth # "STABLE" /\ ~isRestoring
\* "DISENGAGE & RESTORE SYSTEM" of the optimizer panel
PanelRestoreEnabled == PanelShown /\ systemHealth # "STABLE" /\ ~isRestoring
\* FPS target buttons that are never disabled
FpsAlwaysEnabled == PanelShown

\* the FPS target buttons of the optimizer panel
FpsEnabled == PanelShown /\ ~isGameRunning /\ ~isRestoring
\* "EXECUTE KERNEL SCAN"
OptimizeEnabled == ~isOptimizing /\ gameName # <<>>

UiImport(B) ==
  /\ NoReady /\ used.imp < B.imp
  /\ \E f \in Files : handleImportGame(f)

UiAlias(B) ==
  /\ NoReady /\ used.alias < B.alias
  /\ \E a \in Aliases : setGameName(a)

UiOptimize(B) ==
  /\ NoReady /\ used.opt < B.opt
  /\ OptimizeEnabled
  /\ handleOptimization

UiFps(B) ==
  /\ NoReady /\ used.fps < B.fps
  /\ FpsEnabled
  /\ \E fps \in FpsChoices : selectFpsTarget(fps)

UiDashHxd(B) ==
  /\ NoReady /\ used.seq < B.seq
  /\ DashHxdEnabled
  /\ handleHxDBoost

UiPanelHxd(B) ==
  /\ NoReady /\ (used.seq < B.seq \/ importedGamePath = NoPath)
  /\ ExecuteShown
  /\ handleHxDBoost

UiSmart(B) ==
  /\ NoReady /\ (used.seq < B.seq \/ importedGamePath = NoPath)
  /\ ExecuteShown
  /\ selectBoostEngineAndStart("smart")

UiRestore(B) ==
  /\ NoReady /\ used.seq < B.seq
  /\ DashRestoreEnabled \/ PanelRestoreEnabled
  /\ handleRestoreSystem

UiScan(B) ==
  /\ NoReady /\ used.scan < B.scan
  /\ fetchProcesses

UiNet(B) == used.net < B.net /\ NetChange

\* what the endpoint may answer to each service, and fail with
UiTexts == [plan |-> {TxtSteps, TxtObject}, advice |-> {TxtTips}, procs |-> {TxtProcs}]

UiBounds == [seq |-> MaxSeq, fps |-> MaxFps, opt |-> MaxOpt, imp |-> MaxImport]

Next ==
  \/ UiImport(UiBounds)
  \/ UiOptimize(UiBounds)
  \/ UiFps(UiBounds)
  \/ UiDashHxd(UiBounds)
  \/ UiPanelHxd(UiBounds)
  \/ UiSmart(UiBounds)
  \/ UiRestore(UiBounds)
  \/ Resume
  \/ ApiRespond(UiTexts)
  \/ FireTimer
  \/ Tick

Spec == Init /\ [][Next]_vars

----------------------------------------------------------------------------
(* The handlers as any caller may invoke them: in any state, whether or    *)
(* not the control that is wired to them is shown and enabled.             *)
CallSeq == 1
CallFps == 1
CallImport == 1
Engines == {"smart", "hxd"}

CallImportGame ==
  /\ NoReady /\ used.imp < CallImport
  /\ \E f \in Files : handleImportGame(f)

CallFpsTarget ==
  /\ NoReady /\ used.fps < CallFps
  /\ \E fps \in FpsChoices : selectFpsTarget(fps)

CallHxDBoost ==
  /\ NoReady /\ (used.seq < CallSeq \/ importedGamePath = NoPath)
  /\ handleHxDBoost

CallSelectBoost ==
  /\ NoReady
  /\ used.seq < CallSeq \/ importedGamePath = NoPath \/ perfProfile.targetFps = 0
  /\ \E engine \in Engines : selectBoostEngineAndStart(engine)

CallRestore ==
  /\ NoReady /\ used.seq < CallSeq
  /\ handleRestoreSystem

NextCalls ==
  \/ CallImportGame
  \/ CallFpsTarget
  \/ CallHxDBoost
  \/ CallSelectBoost
  \/ CallRestore
  \/ Resume
  \/ ApiRespond(UiTexts)
  \/ FireTimer
  \/ Tick

SpecCalls == Init /\ [][NextCalls]_vars

----------------------------------------------------------------------------
(* The page while the endpoint never answers (callGemini sets no timeout): *)
(* a request made online stays in flight, a request made offline resolves  *)
(* to null at once.  The log is not recorded.                              *)
HangSeq == 4
HangFps == 2
HangNet == 2
HangOpt == 1
HangAlias == 1
HangBounds == [seq |-> HangSeq, fps |-> HangFps, opt |-> HangOpt,
               alias |-> HangAlias, net |-> HangNet]

NextHang ==
  \/ UiAlias(HangBounds)
  \/ UiOptimize(HangBounds)
  \/ UiFps(HangBounds)
  \/ UiDashHxd(HangBounds)
  \/ UiPanelHxd(HangBounds)
  \/ UiSmart(HangBounds)
  \/ UiRestore(HangBounds)
  \/ UiNet(HangBounds)
  \/ Resume
  \/ FireTimer
  \/ Tick

SpecHang == InitFlags /\ [][NextHang]_vars

----------------------------------------------------------------------------
(* The page seen from its three services: every answer and every failure   *)
(* of the endpoint, connectivity changes, one orchestrated boost.  The log *)
(* is not recorded.                                                        *)
SvcSeq == 1
SvcOpt == 1
SvcScan == 1
SvcNet == 1
SvcLow == 1
SvcCalls == 2
SvcFps == 1
SvcImport == 1
SvcBounds == [seq |-> SvcSeq, fps |-> SvcFps, opt |-> SvcOpt, scan |-> SvcScan,
              imp |-> SvcImport, net |-> SvcNet]
SvcTexts == [plan |-> AllTexts, advice |-> AllTexts, procs |-> AllTexts]
SvcMsgs == {Msg500, MsgXhr, Msg403, MsgNone}

UiLowEnd == NoReady /\ used.low < SvcLow /\ setIsLowEndMode
\* at most SvcCalls requests in a run
MayCall == used.calls < SvcCalls

NextSvc ==
  \/ UiImport(SvcBounds)
  \/ (MayCall /\ UiOptimize(SvcBounds))
  \/ UiLowEnd
  \/ (MayCall /\ UiScan(SvcBounds))
  \/ UiFps(SvcBounds)
  \/ (MayCall /\ UiSmart(SvcBounds))
  \/ UiNet(SvcBounds)
  \/ Resume
  \/ ApiRespond(SvcTexts)
  \/ ApiFail(SvcMsgs)
  \/ FireTimer
  \/ Tick

SpecSvc == InitFlags /\ [][NextSvc]_vars

----------------------------------------------------------------------------
(* The claims.                                                              *)

\* the last step of a boost has just run
BoostEnded == ev.op \in {"hxd", "smart"} /\ ev.last
\* a boost has just passed its checks
BoostStarted ==
  ev.op \in {"handleHxDBoost", "selectBoostEngineAndStart"} /\ ev.sid > 0

\* C1: a boost started from STABLE sets health to OPTIMIZING at its start,
\* and when it has run to its last step with no other sequence started
\* meanwhile, health is MODIFIED, isGameRunning and isOverlayActive are true,
\* isOfficialBoosting is false and boostEngine is the engine of its path.
C1_BoostEndsModified ==
  /\ BoostStarted => systemHealth = "OPTIMIZING"
  /\ (BoostEnded /\ seqs[ev.sid].from = "STABLE" /\ seqs[ev.sid].solo) =>
       /\ systemHealth = "MODIFIED"
       /\ isGameRunning /\ isOverlayActive /\ ~isOfficialBoosting
       /\ perfProfile.boostEngine = seqs[ev.sid].kind

\* the last step of a direct boost that started from STABLE has just run,
\* and nothing else ran since that boost started
HxdEndedQuiet ==
  /\ ev.op = "hxd" /\ ev.last
  /\ seqs[ev.sid].from = "STABLE" /\ seqs[ev.sid].quiet

NewestFirst(log) == \A i \in 1..(Len(log) - 1) : log[i].n > log[i + 1].n

\* C2 as the spec states it: a complete direct boost from STABLE, with no
\* other operation in between, adds exactly 7 lines to the log, newest first.
C2_SevenNewLines ==
  HxdEndedQuiet =>
    /\ Len(boostLog) = Len(seqs[ev.sid].log0) + 7
    /\ NewestFirst(boostLog)

\* C2 amended: such a boost adds exactly 8 lines, the [HxD-INIT] line logged
\* at once and the 7 scripted lines; the log holds them newest first (step 7
\* on top, [HxD-INIT] eighth) above the lines it held before.
C2_EightNewLines ==
  HxdEndedQuiet =>
    /\ Len(boostLog) = Len(seqs[ev.sid].log0) + 8
    /\ SubSeq(boostLog, 9, Len(boostLog)) = seqs[ev.sid].log0
    /\ \A i \in 1..7 : boostLog[i].sid = ev.sid /\ boostLog[i].k = 8 - i
    /\ boostLog[8].tag = "HxD-INIT" /\ boostLog[8].sid = ev.sid
    /\ NewestFirst(boostLog)

C2_Witness == HxdEndedQuiet /\ Len(seqs[ev.sid].log0) > 0

\* the last step of a restore that started from MODIFIED has just run, and
\* no other sequence started since that restore started
RestoreEndedSolo ==
  /\ ev.op = "restore" /\ ev.last
  /\ seqs[ev.sid].from = "MODIFIED" /\ seqs[ev.sid].solo

\* C3: a restore started from MODIFIED that runs to its last step with no
\* other sequence started meanwhile ends with health STABLE, the profile
\* {targetFps: 0, hexMovementBoost: false, boostEngine: null}, and
\* isGameRunning, isOverlayActive and isRestoring all false.
C3_RestoreEndsStable ==
  RestoreEndedSolo =>
    /\ systemHealth = "STABLE"
    /\ perfProfile = [targetFps |-> 0, hexMovementBoost |-> FALSE, boostEngine |-> NoEngine]
    /\ ~isGameRunning /\ ~isOverlayActive /\ ~isRestoring

C3_Witness == RestoreEndedSolo

HealthEdges == {<<"STABLE", "OPTIMIZING">>, <<"OPTIMIZING", "MODIFIED">>,
                <<"MODIFIED", "STABLE">>}

\* C6: health changes only along STABLE -> OPTIMIZING, OPTIMIZING ->
\* MODIFIED and MODIFIED -> STABLE.
C6_HealthEdgesOnly ==
  [][systemHealth' = systemHealth \/ <<systemHealth, systemHealth'>> \in HealthEdges]_vars

BoostHandlers == {"handleHxDBoost", "selectBoostEngineAndStart"}

\* C4: a step that invokes handleHxDBoost or selectBoostEngineAndStart while
\* importedGamePath is null raises an alert and changes no state variable:
\* health is and stays STABLE, the log and the pending callbacks are as before.
C4_NoTargetAlerts ==
  [][(ev'.op \in BoostHandlers /\ importedGamePath = NoPath) =>
       /\ ev'.alert \in {"path", "fps"}
       /\ (perfProfile.targetFps # 0 \/ ev'.op = "handleHxDBoost") => ev'.alert = "path"
       /\ UNCHANGED progVars
       /\ systemHealth = "STABLE" /\ systemHealth' = "STABLE"]_vars

C4_Witness ==
  /\ ev.alert = "path" /\ ev.op = "handleHxDBoost"
  /\ importedGamePath = NoPath /\ timers # <<>>

\* C5 as the spec states it: a step that invokes either boost path while
\* perfProfile.targetFps = 0 raises an alert and changes no state variable.
C5_BothPathsNeedFps ==
  [][(ev'.op \in BoostHandlers /\ perfProfile.targetFps = 0) =>
       (ev'.alert # "" /\ UNCHANGED progVars)]_vars

\* C5 amended: only selectBoostEngineAndStart requires a chosen frame rate;
\* invoked with targetFps = 0 it raises the FPS alert and changes no state
\* variable.  handleHxDBoost with a linked target and targetFps = 0 raises no
\* alert: it sets health OPTIMIZING, logs a line and schedules its 7 steps,
\* the last of which carries the default frame rate 60.
C5_OnlySelectNeedsFps ==
  [][/\ (ev'.op = "selectBoostEngineAndStart" /\ perfProfile.targetFps = 0) =>
          (ev'.alert = "fps" /\ UNCHANGED progVars)
     /\ (ev'.op = "handleHxDBoost" /\ importedGamePath # NoPath
           /\ perfProfile.targetFps = 0) =>
          /\ ev'.alert = ""
          /\ systemHealth' = "OPTIMIZING" /\ isOfficialBoosting'
          /\ Len(boostLog') = Len(boostLog) + 1
          /\ Len(timers') = Len(timers) + 7
          /\ timers'[Len(timers')].last /\ timers'[Len(timers')].line.num = 60]_vars

C5_Witness == ev.alert = "fps" /\ importedGamePath # NoPath /\ boostLog # <<>>

\* the callback t is still pending after the step, with the time left it had
\* or one unit less
Kept(t) ==
  \E j \in 1..Len(timers') :
    timers'[j] = t \/ timers'[j] = [t EXCEPT !.rem = t.rem - 1]

\* the callback t ran in the step: it was due, and its line is the newest of
\* the log, above all the lines the log held
Fired(t) ==
  /\ t.rem = 0
  /\ ev' = Event(t.kind, t.sid, t.k, t.last, "")
  /\ boostLog' = <<Stamped(t.line, used.lines + 1)>> \o boostLog

\* C7: whatever starts while step callbacks are pending, no step cancels a
\* pending callback: after every step each one is still pending or has just
\* run and written its line on top of the one log; and when the last step of
\* a sequence runs, none of its steps is left pending (all of them ran).
C7_NoCallbackCancelled ==
  [][/\ \A i \in 1..Len(timers) : Kept(timers[i]) \/ Fired(timers[i])
     /\ ev'.last => \A j \in 1..Len(timers') : timers'[j].sid # ev'.sid]_vars

\* two sequences are pending at once and the log holds a line of one between
\* two lines of the other
C7_Witness ==
  /\ \E i, j \in 1..Len(timers) : timers[i].sid # timers[j].sid
  /\ \E a, b, c \in 1..Len(boostLog) :
       /\ a < b /\ b < c
       /\ boostLog[a].k > 0 /\ boostLog[b].k > 0 /\ boostLog[c].k > 0
       /\ boostLog[a].sid = boostLog[c].sid /\ boostLog[b].sid # boostLog[a].sid

BoostStepPending ==
  \E j \in 1..Len(timers) : timers[j].kind \in {"hxd", "smart"}

\* C8 as the spec states it, in the form a finite run refutes: a boost that
\* raised isOfficialBoosting always has a step callback pending that leads to
\* its last step, so the flag cannot stay raised with nothing left to run;
\* and no boost stops before its last step.
C8_BoostNeverStuck ==
  /\ isOfficialBoosting => BoostStepPending
  /\ \A i \in DOMAIN seqs : seqs[i].st # "threw"

\* the five steps, the five tips and the five classifications that the
\* services return without an answer of the endpoint
LocalPlan(name) ==
  <<StrItem("LOCAL: Locking CPU Affinity for core 0-3", <<>>),
    StrItem("LOCAL: Flushing standby memory lists for", name),
    StrItem("LOCAL: Suspending non-critical I/O handles", <<>>),
    StrItem("LOCAL: Reallocating virtual memory pool to high-speed cache", <<>>),
    StrItem("LOCAL: Optimizing kernel interrupt request (IRQ) pacing", <<>>)>>

StaticTips(name) ==
  Arr(<<Item("obj", "OS", "Ultimate Performance Mode", "High", <<>>),
        Item("obj", "Process", "Realtime Priority Bridge", "Extreme", name),
        Item("obj", "Hardware", "Page File Expansion", "High", <<>>),
        Item("obj", "OS", "Disable Superfetch", "Medium", <<>>),
        Item("obj", "Compatibility", "Legacy Instruction Emulation", "Medium", <<>>)>>)

HeuristicStatus == <<"safe", "safe", "safe", "safe", "caution">>
HeuristicAdvice ==
  <<"Safe to terminate. These consume significant RAM/CPU.",
    "Safe to terminate. These consume significant RAM/CPU.",
    "Recommended to disable during gameplay to reduce disk I/O.",
    "Safe to terminate. These consume significant RAM/CPU.",
    "Manual identification required. Likely a system or driver handle.">>

NoAnswer == ev.why \in {"offline", "failed"}

\* the NEURAL lines of the steps scheduled for sequence sid, in order
NeuralSteps(sid) ==
  LET idx == {j \in 1..Len(timers) : timers[j].sid = sid /\ timers[j].line.tag = "NEURAL"}
      f[S \in SUBSET idx] ==
        IF S = {} THEN <<>>
        ELSE LET m == CHOOSE x \in S : \A y \in S : x <= y
             IN <<[t |-> "str", a |-> timers[m].line.txt, b |-> "", c |-> "",
                   name |-> timers[m].line.name]>> \o f[S \ {m}]
  IN f[idx]

\* C9: when a service resumes its caller after the device was offline or the
\* request failed (retries used up or not retried), the caller holds exactly
\* the fallback of that service: the 5 LOCAL steps with the game name in the
\* second, the 5 static tips with the game name in the second, or the
\* heuristic status and recommendation of each of the five names scanned.
C9_FallbackExact ==
  /\ \A c \in calls : (c.phase = "ready" /\ c.why \in {"offline", "failed"}) =>
                          c.result = NullResult
  /\ (NoAnswer /\ ev.op = "startBoostingSequence") =>
       /\ NeuralSteps(ev.sid) = LocalPlan(ev.name)
       /\ "startBoostingSequence" \notin uncaught
  /\ (NoAnswer /\ ev.op = "handleOptimization.then") => tips = StaticTips(ev.name)
  /\ (NoAnswer /\ ev.op = "fetchProcesses.then") =>
       /\ Len(analyzedProcesses) = 5
       /\ \A i \in 1..5 :
            /\ analyzedProcesses[i].name = ScanList[i]
            /\ analyzedProcesses[i].status = HeuristicStatus[i]
            /\ analyzedProcesses[i].recommendation = HeuristicAdvice[i]

C9_Witness ==
  /\ ev.why = "failed" /\ ev.op = "fetchProcesses.then"
  /\ Len(analyzedProcesses) = 5

\* the answers that are not an array of objects: unparsable text, and JSON
\* of another shape
Mismatched == {TxtGarbage, TxtNull, TxtObject, TxtNumber, TxtNullItem}

\* C10 as the spec states it: an answer that cannot be parsed or is not the
\* array asked for is absorbed: no handler throws, and the caller holds the
\* fallback list.
C10_MismatchAbsorbed ==
  /\ uncaught = {}
  /\ (ev.op = "handleOptimization.then" /\ ev.why = "text" /\ ev.text \in Mismatched) =>
       tips = StaticTips(ev.name)

\* C11 as the spec states it: for one request the endpoint is called at most
\* twice, the first attempt and one retry.
C11_AtMostTwoAttempts == \A c \in calls : c.tries <= 2

\* a call of the endpoint is made in the step: a new request in flight, or
\* one more try of a request
Attempted(c) ==
  /\ c.phase = "net"
  /\ \A old \in calls : old.cid = c.cid => c.tries > old.tries

\* C12: every step that calls the endpoint is taken with the device online;
\* and when the retry delay ends with the device offline, no call is made:
\* callGemini resolves to null at once.
C12_NoCallWhileOffline ==
  [][/\ \A c \in calls' : Attempted(c) => navOnLine
     /\ (ev'.op = "retry" /\ ~navOnLine) =>
          \A old \in calls : old.phase = "delay" /\ old.cid \in {t.call : t \in {timers[i] : i \in Due}} =>
            \E c \in calls' : /\ c.cid = old.cid /\ c.tries = old.tries
                               /\ (c = old \/ (c.phase = "ready" /\ c.result = NullResult))]_vars

\* the delay of a retry has ended with the device offline
C12_Witness ==
  /\ ev.op = "retry" /\ ~navOnLine
  /\ \E c \in calls : c.phase = "ready" /\ c.why = "offline" /\ c.tries = 1
                        /\ c.retries = DefaultRetries - 1

----------------------------------------------------------------------------
(* Telemetry: the callback of setInterval(..., 1500).  The effect restarts  *)
(* the interval whenever stats, isGameRunning or isOnline change, so the   *)
(* callback reads the current values of all three; it may run at any time  *)
(* between two other tasks.                                                *)
Max(a, b) == IF a >= b THEN a ELSE b
Min(a, b) == IF a <= b THEN a ELSE b

\* Math.random() * span - off, for Math.random() = r / Grain
Rand(r, span, off) == r * span - off * Grain

\* a clamp that forgets the upper end
ClampBelowOnly(lo, hi, x) == Max(lo * Grain, x)

\* Math.max(lo, Math.min(hi, x))
Clamp(lo, hi, x) == Max(lo * Grain, Min(hi * Grain, x))

\* the updater of setStats; r holds the four values of Math.random()
NextStats(prev, running, online, r) ==
  [prev EXCEPT
     !.cpuUsage = IF running THEN Clamp(40, 95, prev.cpuUsage + Rand(r[1], 10, 5))
                  ELSE Clamp(5, 25, prev.cpuUsage + Rand(r[1], 4, 2)),
     !.ramUsage = IF running THEN Clamp(60, 90, prev.ramUsage + Rand(r[2], 5, 2))
                  ELSE Clamp(15, 35, prev.ramUsage + Rand(r[2], 4, 2)),
     !.temp = IF running THEN Clamp(65, 85, prev.temp + Rand(r[3], 2, 1))
              ELSE Clamp(35, 50, prev.temp + Rand(r[3], 2, 1)),
     !.ping = IF online THEN Clamp(5, 100, prev.ping + Rand(r[4], 6, 3)) ELSE 0]

\* a window that keeps the oldest entries
SliceFirst(s, n) == IF Len(s) <= n THEN s ELSE SubSeq(s, 1, n)

\* s.slice(-n)
SliceLast(s, n) == IF Len(s) <= n THEN s ELSE SubSeq(s, Len(s) - n + 1, Len(s))

\* the entry of the chart: the time of the tick (its arrival number) and the
\* figures of the stats the callback closed over
ChartEntry(n, shown) == [time |-> n, cpu |-> shown.cpuUsage, ram |-> shown.ramUsage]

\* the updater of setChartData
NextChart(prev, entry) == SliceLast(Append(prev, entry), ChartWindow)

\* one tick of the interval
TelemetryTick(maxTicks, rolls) ==
  /\ NoReady /\ used.tele < maxTicks
  /\ \E r \in rolls : stats' = NextStats(stats, isGameRunning, isOnline, r)
  /\ chartData' = NextChart(chartData, ChartEntry(used.tele + 1, stats))
  /\ used' = [used EXCEPT !.tele = @ + 1]
  /\ ev' = Event("telemetry", 0, 0, FALSE, "")
  /\ UNCHANGED <<track, importedGamePath, gameName, tips, isOptimizing, isLowEndMode,
                 analyzedProcesses, isOnline, navOnLine, FlagVars, boostLog, timers,
                 calls, uncaught, seqs>>

\* the values of Math.random() of one tick: all low, all high, mixed
Rolls == {<<0, 0, 0, 0>>, <<Grain - 1, Grain - 1, Grain - 1, Grain - 1>>,
          <<0, Grain - 1, Grain - 1, 0>>}

(* The page with its telemetry: a direct boost, a restore and connectivity *)
(* changes, and the interval ticking in between.  The log is not recorded. *)
TeleSeq == 2
TeleNet == 1
TeleTicks == 3
TeleBounds == [seq |-> TeleSeq, net |-> TeleNet]

NextTele ==
  \/ UiDashHxd(TeleBounds)
  \/ UiRestore(TeleBounds)
  \/ UiNet(TeleBounds)
  \/ TelemetryTick(TeleTicks, Rolls)
  \/ FireTimer
  \/ Tick

SpecTele == InitFlags /\ [][NextTele]_vars

(* The chart over a long run of ticks.                                      *)
ChartTicks == 16
ChartNet == 1
ChartBounds == [net |-> ChartNet]
ChartRolls == {<<0, 0, 0, 0>>, <<Grain - 1, Grain - 1, Grain - 1, Grain - 1>>}

NextChartRun ==
  \/ UiNet(ChartBounds)
  \/ TelemetryTick(ChartTicks, ChartRolls)

SpecChart == InitFlags /\ [][NextChartRun]_vars

Within(x, lo, hi) == lo * Grain <= x /\ x <= hi * Grain

\* C13: in the state a telemetry tick leaves, every figure is inside the
\* range of the mode the tick ran in: cpuUsage in [40,95], ramUsage in
\* [60,90], temp in [65,85] with a game running, [5,25], [15,35], [35,50]
\* without; ping in [5,100] online and exactly 0 offline.
C13_FiguresClamped ==
  ev.op = "telemetry" =>
    /\ IF isGameRunning
       THEN /\ Within(stats.cpuUsage, 40, 95) /\ Within(stats.ramUsage, 60, 90)
            /\ Within(stats.temp, 65, 85)
       ELSE /\ Within(stats.cpuUsage, 5, 25) /\ Within(stats.ramUsage, 15, 35)
            /\ Within(stats.temp, 35, 50)
    /\ IF isOnline THEN Within(stats.ping, 5, 100) ELSE stats.ping = 0

\* a tick ran with a game running and offline, from figures the idle mode
\* had left below the running ranges
C13_Witness ==
  /\ ev.op = "telemetry" /\ isGameRunning /\ ~isOnline
  /\ chartData # <<>> /\ chartData[Len(chartData)].cpu < 40 * Grain

\* C14: after n ticks the chart holds the last min(n, 15) entries appended,
\* in arrival order: never more than 15, and the oldest is the one dropped.
C14_ChartIsLastFifteen ==
  /\ Len(chartData) = Min(used.tele, 15)
  /\ \A i \in 1..Len(chartData) : chartData[i].time = used.tele - Len(chartData) + i

\* the 16th entry has arrived and the first one is gone
C14_Witness == used.tele = 16 /\ Len(chartData) = 15 /\ chartData[1].time = 2

----------------------------------------------------------------------------
(* The optimizer panel with the direct boost and the restore: the tips are *)
(* the fallback of a device that is offline.                               *)
PanelSeq == 2
PanelFps == 1
PanelOpt == 1
PanelImport == 1
PanelBounds == [seq |-> PanelSeq, fps |-> PanelFps, opt |-> PanelOpt, imp |-> PanelImport]

NextPanel ==
  \/ UiImport(PanelBounds)
  \/ UiOptimize(PanelBounds)
  \/ UiFps(PanelBounds)
  \/ UiDashHxd(PanelBounds)
  \/ UiPanelHxd(PanelBounds)
  \/ UiRestore(PanelBounds)
  \/ Resume
  \/ FireTimer
  \/ Tick

SpecPanel == Init /\ [][NextPanel]_vars

\* C15: through the controls of the page no step taken while isGameRunning
\* is true is a frame-rate selection (the FPS buttons are disabled): so in
\* such a state perfProfile.targetFps is changed by no selection, only by the
\* last callback of a sequence, and no [TUNER] line is logged.
C15_NoSelectionWhileRunning ==
  [][isGameRunning =>
       /\ ev'.op # "selectFpsTarget"
       /\ perfProfile'.targetFps # perfProfile.targetFps =>
            (ev'.op \in {"hxd", "restore"} /\ ev'.last)
       /\ (boostLog' # boostLog /\ boostLog' # <<>>) => boostLog'[1].tag # "TUNER"]_vars

\* a game is running, the panel with the FPS buttons is shown, a selection
\* is still within the bounds of the run, and the buttons are disabled
C15_Witness ==
  /\ isGameRunning /\ PanelShown /\ ~FpsEnabled
  /\ used.fps < PanelFps /\ ~isRestoring

\* the step starts a direct boost
HxdInvoked == ev'.op = "handleHxDBoost" /\ ev'.alert = ""

\* the step runs the last callback of a direct boost
HxdLastStep == ev'.op = "hxd" /\ ev'.last

\* C16: the callbacks a direct boost schedules carry the targetFps of the
\* state it was invoked in, and its last step sets perfProfile to that value
\* (60 if it was 0) with hexMovementBoost = true and boostEngine = 'hxd',
\* whatever targetFps is by then.
C16_LastStepWritesSnapshot ==
  [][/\ HxdInvoked =>
          \A j \in (Len(timers) + 1)..Len(timers') : timers'[j].fps = perfProfile.targetFps
     /\ HxdLastStep =>
          \E i \in 1..Len(timers) :
            /\ timers[i].sid = ev'.sid /\ timers[i].last
            /\ perfProfile' = [targetFps |-> IF timers[i].fps = 0 THEN 60 ELSE timers[i].fps,
                               hexMovementBoost |-> TRUE, boostEngine |-> "hxd"]]_vars

\* a direct boost invoked with no target selected has ended with targetFps
\* 60, although 30 was selected while it was in flight
C16_Witness ==
  /\ ev.op = "hxd" /\ ev.last /\ perfProfile.targetFps = 60
  /\ \E a, b \in 1..Len(boostLog) :
       /\ a < b
       /\ boostLog[a].tag = "TUNER" /\ boostLog[a].num = 30
       /\ boostLog[b].tag = "HxD-INIT" /\ boostLog[b].sid = ev.sid

StepKinds == {"hxd", "smart", "restore"}
CadenceMs(kind) == IF kind = "hxd" THEN 350 ELSE IF kind = "smart" THEN 400 ELSE 450

\* C17: the callback of the k-th line of a sequence runs k x cadence after
\* the steps were scheduled (350 ms direct, 400 ms orchestrated, 450 ms
\* restore) and puts that line on top of the log, so that the lines of one
\* sequence stand in the log in script order; and a callback that is not the
\* last of its sequence changes none of health, isGameRunning,
\* isOverlayActive, isOfficialBoosting, isRestoring and perfProfile.
C17_StepsOnCadence ==
  [][ev'.op \in StepKinds =>
       /\ seqs'[ev'.sid].age * TimeUnit = ev'.k * CadenceMs(ev'.op)
       /\ boostLog' # <<>> /\ boostLog'[1].sid = ev'.sid /\ boostLog'[1].k = ev'.k
       /\ \A a, b \in 1..Len(boostLog') :
            (a < b /\ boostLog'[a].sid = boostLog'[b].sid /\ boostLog'[b].k > 0) =>
              boostLog'[a].k > boostLog'[b].k
       /\ ~ev'.last => UNCHANGED FlagVars]_vars

\* the 13th and last line of an orchestrated boost with a 5-step plan has
\* been logged, 5200 ms after its steps were scheduled
C17_Witness ==
  /\ ev.op = "smart" /\ ev.k = 13 /\ ev.last
  /\ seqs[ev.sid].age * TimeUnit = 5200

\* the last step of a restore that was started with health OPTIMIZING has
\* just run, and no other sequence started after that restore
RestoreOverBoostEnded ==
  /\ ev.op = "restore" /\ ev.last
  /\ seqs[ev.sid].from = "OPTIMIZING" /\ seqs[ev.sid].solo

\* C18: every direct boost started before a restore has run its last step
\* when the restore runs its last step (2450 ms < 2700 ms); so when the last
\* step of a restore started during a direct boost has run, no callback of
\* the boost is pending, health is STABLE, isGameRunning and isOverlayActive
\* are false and the profile is reset.
C18_BoostEndsBeforeRestore ==
  /\ \A r \in DOMAIN seqs : \A h \in 1..(r - 1) :
       (seqs[r].kind = "restore" /\ seqs[r].st = "done" /\ seqs[h].kind = "hxd") =>
         seqs[h].st = "done"
  /\ RestoreOverBoostEnded =>
       /\ \A j \in 1..Len(timers) : timers[j].sid > ev.sid
       /\ systemHealth = "STABLE" /\ ~isGameRunning /\ ~isOverlayActive
       /\ perfProfile = [targetFps |-> 0, hexMovementBoost |-> FALSE, boostEngine |-> NoEngine]

\* a restore started while a direct boost had steps pending (a step of the
\* boost was logged after the restore's first line) has run its last step,
\* and nothing is pending
C18_Witness ==
  /\ RestoreOverBoostEnded /\ timers = <<>>
  /\ \E a, b \in 1..Len(boostLog) :
       /\ a < b
       /\ boostLog[a].sid < ev.sid /\ boostLog[a].k > 0 /\ boostLog[a].tag # "RESTORE"
       /\ boostLog[b].sid = ev.sid /\ boostLog[b].k = 0

\* C19 as the spec states it: whenever health is MODIFIED the profile names
\* an engine and a frame-rate target.
C19_ModifiedHasProfile ==
  systemHealth = "MODIFIED" =>
    (perfProfile.boostEngine # NoEngine /\ perfProfile.targetFps > 0)

RestorePending == {timers[j].sid : j \in {i \in 1..Len(timers) : timers[i].kind = "restore"}}

\* C20: through the controls of the page at most one restore has callbacks
\* pending at any time; isRestoring is true exactly while a restore has
\* callbacks pending, and while it is true neither restore control can be
\* clicked.
C20_OneRestoreAtATime ==
  /\ Cardinality(RestorePending) <= 1
  /\ isRestoring <=> RestorePending # {}
  /\ isRestoring => (~DashRestoreEnabled /\ ~PanelRestoreEnabled)

\* a restore is under way with health not STABLE and the panel shown: but
\* for isRestoring both restore controls would be enabled, and the run has
\* room for another sequence
C20_Witness ==
  /\ isRestoring /\ RestorePending # {}
  /\ systemHealth # "STABLE" /\ PanelShown
  /\ used.seq < HangSeq

\* C21: in every reachable state isOverlayActive equals isGameRunning,
\* whatever the interleaving of the boost and restore sequences: the three
\* last callbacks are the only writers and each writes both in one step.
C21_OverlayFollowsGame == isOverlayActive = isGameRunning

\* the last step of an orchestrated boost has just set both flags after a
\* restore that was started later had already run its last step and
\* cleared both
C21_Witness ==
  /\ ev.op = "smart" /\ ev.last
  /\ isGameRunning /\ isOverlayActive
  /\ \E r \in DOMAIN seqs :
       r > ev.sid /\ seqs[r].kind = "restore" /\ seqs[r].st = "done"

\* C22: every step leaves the log as it is or puts one new line on top of
\* the lines it held, in their order, except the step that starts the
\* orchestrated step sequence (startBoostingSequence), which leaves the log
\* empty whatever it held.
C22_LogPrependsOrEmpties ==
  [][IF ev'.op = "startBoostingSequence"
     THEN boostLog' = <<>>
     ELSE \/ boostLog' = boostLog
          \/ boostLog' # <<>> /\ Tail(boostLog') = boostLog]_vars

\* the orchestrated steps have just been started and the log is empty, while
\* a restore started after the boost was requested (its first line was
\* logged above the boost's AI_CORE line) has steps pending; no other
\* orchestrated boost emptied the log in between
C22_Witness ==
  /\ ev.op = "startBoostingSequence" /\ boostLog = <<>> /\ used.lines >= 2
  /\ \A i \in DOMAIN seqs : seqs[i].kind = "smart" => i = ev.sid
  /\ \E r \in DOMAIN seqs :
       /\ r > ev.sid /\ seqs[r].kind = "restore" /\ seqs[r].st = "run"
       /\ \E j \in 1..Len(timers) : timers[j].sid = r

====
